---- MODULE Spec2Model ----
(***************************************************************************)
(* api-security-monitor: the APIMonitor class of src/index.js              *)
(* (src/unnamed/part_002).  One monitor instance created by                *)
(* module.exports(options) serves monitorMiddleware, a second instance     *)
(* created by module.exports.blockIPs(options) serves blockIPsMiddleware.  *)
(* Request handlers are async functions: they interleave at every await.   *)
(* Time is Date.now() in milliseconds.                                     *)
(***************************************************************************)
EXTENDS Integers, Sequences, FiniteSets, TLC

VARIABLES
    now,                \* Date.now(), milliseconds
    ticks,              \* number of clock advances so far (bounded)
    cfg,                \* the fields the constructor sets from options
    localRequestCounts, \* monitor.localRequestCounts : Map ip -> [timestamps]
    localRouteScans,    \* monitor.localRouteScans    : Map ip -> Set(route)
    localBlockedIPs,    \* monitor.localBlockedIPs    : Map ip -> {expiresAt, reason}
    blockerBlockedIPs,  \* localBlockedIPs of the instance made by blockIPs(options)
    redisCount,         \* Redis keys req_count:<ip>  -> [val, exp]
    redisScan,          \* Redis keys scan_count:<ip> -> [members, exp]
    redisBlocked,       \* Redis keys blocked:<ip> (+ blocked:<ip>:reason) -> [exp, reason]
    req,                \* the request handlers in flight, one per slot
    hooks,              \* identities with a registered 'finish' hook that has not run
    passedAt,           \* per identity: times at which monitorMiddleware called next()
    denied,             \* per identity: the block info last read and the 403 last sent
    emitted,            \* per identity: the last 'attack-detected' emission
    counted             \* per identity: the requests updateLocalTracking recorded since
                        \* the last clear, and the counts it returned last

vars == <<now, ticks, cfg, localRequestCounts, localRouteScans, localBlockedIPs,
          blockerBlockedIPs, redisCount, redisScan, redisBlocked, req, hooks,
          passedAt, denied, emitted, counted>>

----------------------------------------------------------------------------
(* Bounds of the model *)

NumSlots == 2        \* request handlers that can be in flight at once
MaxTicks == 2        \* clock advances, requests handled one after another
MaxTicksLocal == 2   \* clock advances, concurrent requests, in-memory maps
MaxTicksShared == 1  \* clock advances, concurrent requests, Redis
MaxCount == 12       \* largest requestCount given to the classifier alone
MaxScan == 7         \* largest scanCount given to the classifier alone
NumListeners == 2    \* subscribers of 'attack-detected'
MaxFaults == 1       \* requests counted beyond the threshold while faults occur

Slots == 1..NumSlots
Identities == {"127.0.0.1", "10.0.0.2"}
Routes == {"/", "/admin", "/config"}

(* Program constants *)

DefaultMaxRequests == 10
DefaultTimeWindow == 60
DefaultScanThreshold == 5
BlockSeconds == 300
MsPerSecond == 1000

DDoS == "DDoS (Excessive Requests)"
PathScanning == "Path Scanning"
NoAttack == "null"
DefaultReason == "Rate limit exceeded"
Manual == "manual"
Nil == "nil"

NaN == -1        \* parseInt(null): every comparison with it is false
NoTTL == -1      \* a Redis key without expiry
MissingTTL == -2 \* reply of TTL for a key that does not exist

----------------------------------------------------------------------------
(* JavaScript Map *)

EmptyMap == [x \in {} |-> 0]
MapHas(m, k) == k \in DOMAIN m
MapSet(m, k, v) == [x \in (DOMAIN m) \cup {k} |-> IF x = k THEN v ELSE m[x]]
MapDelete(m, k) == [x \in (DOMAIN m) \ {k} |-> m[x]]

(* Math.ceil(a / b) for b > 0 *)
Ceil(a, b) == -((-a) \div b)

----------------------------------------------------------------------------
(* constructor *)

OrDefault(v, d) == IF v = 0 THEN d ELSE v   \* v || d  (0 and undefined are falsy)

Construct(options) ==
    [ maxRequests   |-> OrDefault(options.maxRequests, DefaultMaxRequests),
      timeWindow    |-> OrDefault(options.timeWindow, DefaultTimeWindow),
      scanThreshold |-> OrDefault(options.scanThreshold, DefaultScanThreshold),
      saveRecords   |-> options.saveRecords ]

Options ==
    [ maxRequests : {1, 2}, timeWindow : {60, 400}, scanThreshold : {1, 2},
      saveRecords : BOOLEAN ]

LocalOptions == {o \in Options : o.timeWindow = 60 /\ ~o.saveRecords}

SharedOptions == {o \in Options : o.timeWindow = 60 /\ o.saveRecords}

----------------------------------------------------------------------------
(* updateLocalTracking *)

\* a timestamp exactly timeWindow old is kept
UpdateLocalTrackingInclusive(counts, scans, ip, route, t, timeWindow) ==
    LET windowStart == t - (timeWindow * MsPerSecond)
        counts1 == IF MapHas(counts, ip) THEN counts ELSE MapSet(counts, ip, <<>>)
        scans1  == IF MapHas(scans, ip) THEN scans ELSE MapSet(scans, ip, {})
        requests == Append(SelectSeq(counts1[ip], LAMBDA time : time >= windowStart), t)
        scans2  == MapSet(scans1, ip, scans1[ip] \cup {route})
    IN  [ counts |-> MapSet(counts1, ip, requests),
          scans  |-> scans2,
          requestCount |-> Len(requests),
          scanCount |-> Cardinality(scans2[ip]) ]

\* the route set is overwritten instead of extended
UpdateLocalTrackingLossy(counts, scans, ip, route, t, timeWindow) ==
    LET windowStart == t - (timeWindow * MsPerSecond)
        counts1 == IF MapHas(counts, ip) THEN counts ELSE MapSet(counts, ip, <<>>)
        requests == Append(SelectSeq(counts1[ip], LAMBDA time : time > windowStart), t)
        scans2  == MapSet(scans, ip, {route})
    IN  [ counts |-> MapSet(counts1, ip, requests),
          scans  |-> scans2,
          requestCount |-> Len(requests),
          scanCount |-> Cardinality(scans2[ip]) ]

UpdateLocalTracking(counts, scans, ip, route, t, timeWindow) ==
    LET windowStart == t - (timeWindow * MsPerSecond)
        counts1 == IF MapHas(counts, ip) THEN counts ELSE MapSet(counts, ip, <<>>)
        scans1  == IF MapHas(scans, ip) THEN scans ELSE MapSet(scans, ip, {})
        requests == Append(SelectSeq(counts1[ip], LAMBDA time : time > windowStart), t)
        scans2  == MapSet(scans1, ip, scans1[ip] \cup {route})
    IN  [ counts |-> MapSet(counts1, ip, requests),
          scans  |-> scans2,
          requestCount |-> Len(requests),
          scanCount |-> Cardinality(scans2[ip]) ]

(* handleAttackDetection: the verdict *)

Greater(a, b) == a # NaN /\ a > b

ClassifyInclusive(requestCount, scanCount, c) ==
    IF requestCount # NaN /\ requestCount >= c.maxRequests THEN DDoS
    ELSE IF scanCount >= c.scanThreshold THEN PathScanning
    ELSE NoAttack

ClassifyRateOnly(requestCount, scanCount, c) ==
    IF Greater(requestCount, c.maxRequests) THEN DDoS ELSE NoAttack

Classify(requestCount, scanCount, c) ==
    IF Greater(requestCount, c.maxRequests) THEN DDoS
    ELSE IF Greater(scanCount, c.scanThreshold) THEN PathScanning
    ELSE NoAttack

(* isIPBlocked, local branch: the answer and the map it leaves *)

IsIPBlockedLocalStrict(blocked, ip, t) ==
    IF ~MapHas(blocked, ip) THEN [result |-> FALSE, blocked |-> blocked]
    ELSE IF t > blocked[ip].expiresAt
         THEN [result |-> FALSE, blocked |-> MapDelete(blocked, ip)]
         ELSE [result |-> TRUE, blocked |-> blocked]

IsIPBlockedLocal(blocked, ip, t) ==
    IF ~MapHas(blocked, ip) THEN [result |-> FALSE, blocked |-> blocked]
    ELSE IF t >= blocked[ip].expiresAt
         THEN [result |-> FALSE, blocked |-> MapDelete(blocked, ip)]
         ELSE [result |-> TRUE, blocked |-> blocked]

(* getBlockInfo, local branch: remainingTime *)

RemainingTime(entry, t) == Ceil(entry.expiresAt - t, MsPerSecond)

(* handleAttackDetection, local branch: the entry installed *)

LocalBlockEntry(attackType, t) ==
    [expiresAt |-> t + (BlockSeconds * MsPerSecond), reason |-> attackType]

----------------------------------------------------------------------------
(* Redis *)

RedisLive(entry, t) == entry.exp = NoTTL \/ ~(t > entry.exp)

RedisPurge(m, t) == [k \in {x \in DOMAIN m : RedisLive(m[x], t)} |-> m[k]]

RedisExpireAt(t, seconds) == t + (seconds * MsPerSecond)

RedisTTL(m, k, t) ==
    IF ~MapHas(m, k) THEN MissingTTL
    ELSE IF m[k].exp = NoTTL THEN NoTTL
    ELSE ((m[k].exp - t) + 500) \div MsPerSecond

----------------------------------------------------------------------------
(* Request handlers *)

IdleReq ==
    [ pc |-> "idle", mw |-> "monitor", ip |-> "127.0.0.1", route |-> "/",
      requestCount |-> 0, scanCount |-> 0, attackType |-> NoAttack, ttl |-> 0 ]

\* checked: a remaining time was read (blockedFor; until = the expiry it was read
\* from); valid: a 403 was sent (reason = the reason it carried)
NoDeny == [checked |-> FALSE, valid |-> FALSE, reason |-> Nil, blockedFor |-> 0,
           until |-> 0]

\* at: Date.now() of the emission (Never: none yet); blocked, cleared: what a
\* subscriber finds when it is invoked (isIPBlocked(ip) true, no tracking state of
\* ip); invoked: how many subscribers were invoked
Never == -1

NoEvent == [at |-> Never, blocked |-> FALSE, cleared |-> FALSE, invoked |-> 0]

NothingCounted ==
    [since |-> <<>>, seen |-> [r \in Routes |-> Never], requestCount |-> 0, scanCount |-> 0]

\* the record after updateLocalTracking returned u for a request to route at t
Recorded(c, t, route, u, cleared) ==
    IF cleared
    THEN [NothingCounted EXCEPT !.requestCount = u.requestCount,
                                !.scanCount = u.scanCount]
    ELSE [ since |-> Append(c.since, t),
           seen |-> [c.seen EXCEPT ![route] = t],
           requestCount |-> u.requestCount,
           scanCount |-> u.scanCount ]

Free(h) == req[h].pc = "idle"

\* the handlers are interchangeable: a new request takes the first free slot
FirstFree(h) == Free(h) /\ \A g \in Slots : g < h => ~Free(g)

BlockedMapOf(mw) == IF mw = "monitor" THEN localBlockedIPs ELSE blockerBlockedIPs

TickSteps == {1, (cfg.timeWindow * MsPerSecond) - 1, (BlockSeconds * MsPerSecond) - 1}

Prune(seq, t) ==
    SelectSeq(seq, LAMBDA time : time > t - (cfg.timeWindow * MsPerSecond))

Last(seq, n) == IF Len(seq) > n THEN SubSeq(seq, Len(seq) - n + 1, Len(seq)) ELSE seq

----------------------------------------------------------------------------
(* Initial state: both instances constructed from the same options; the     *)
(* blocklist is empty or holds one entry inserted directly.                 *)

ManualEntries(saveRecords) ==
    IF saveRecords
    THEN { [exp |-> RedisExpireAt(0, BlockSeconds), reason |-> r] : r \in {Nil, Manual} }
    ELSE { LocalBlockEntry(Manual, 0) }

InitWith(optionSet) ==
    /\ now = 0
    /\ ticks = 0
    /\ \E o \in optionSet : cfg = Construct(o)
    /\ localRequestCounts = EmptyMap
    /\ localRouteScans = EmptyMap
    /\ blockerBlockedIPs = EmptyMap
    /\ redisCount = EmptyMap
    /\ redisScan = EmptyMap
    /\ \/ localBlockedIPs = EmptyMap /\ redisBlocked = EmptyMap
       \/ \E e \in ManualEntries(cfg.saveRecords) :
            IF cfg.saveRecords
            THEN localBlockedIPs = EmptyMap
                 /\ redisBlocked = MapSet(EmptyMap, "127.0.0.1", e)
            ELSE localBlockedIPs = MapSet(EmptyMap, "127.0.0.1", e)
                 /\ redisBlocked = EmptyMap
    /\ req = [h \in Slots |-> IdleReq]
    /\ hooks = {}
    /\ passedAt = [i \in Identities |-> <<>>]
    /\ denied = [i \in Identities |-> NoDeny]
    /\ emitted = [i \in Identities |-> NoEvent]
    /\ counted = [i \in Identities |-> NothingCounted]

Init == InitWith(LocalOptions)

InitShared == InitWith(SharedOptions)

InitSeq == InitWith(Options)

----------------------------------------------------------------------------
(* The clock advances; Redis drops the keys whose expiry has passed. *)

TickUpTo(max) ==
    /\ ticks < max
    /\ \E d \in TickSteps :
         /\ now' = now + d
         /\ redisCount' = RedisPurge(redisCount, now + d)
         /\ redisScan' = RedisPurge(redisScan, now + d)
         /\ redisBlocked' = RedisPurge(redisBlocked, now + d)
    /\ ticks' = ticks + 1
    /\ UNCHANGED <<cfg, localRequestCounts, localRouteScans, localBlockedIPs,
                   blockerBlockedIPs, req, hooks, passedAt, denied>>
    /\ UNCHANGED emitted
    /\ UNCHANGED counted

----------------------------------------------------------------------------
(* handleAttackDetection, local branch: block the identity, clear tracking *)

HandleAttackDetectionNoBlock(counts, scans, blocked, ip, attackType, t) ==
    IF attackType # NoAttack
    THEN [ blocked |-> blocked,
           counts  |-> MapDelete(counts, ip),
           scans   |-> MapDelete(scans, ip) ]
    ELSE [ blocked |-> blocked, counts |-> counts, scans |-> scans ]

\* the route set survives the block
HandleAttackDetectionKeepRoutes(counts, scans, blocked, ip, attackType, t) ==
    IF attackType # NoAttack
    THEN [ blocked |-> MapSet(blocked, ip, LocalBlockEntry(attackType, t)),
           counts  |-> MapDelete(counts, ip),
           scans   |-> scans ]
    ELSE [ blocked |-> blocked, counts |-> counts, scans |-> scans ]

HandleAttackDetectionLocal(counts, scans, blocked, ip, attackType, t) ==
    IF attackType # NoAttack
    THEN [ blocked |-> MapSet(blocked, ip, LocalBlockEntry(attackType, t)),
           counts  |-> MapDelete(counts, ip),
           scans   |-> MapDelete(scans, ip) ]
    ELSE [ blocked |-> blocked, counts |-> counts, scans |-> scans ]

(* getBlockInfo, shared branch: reason || 'Rate limit exceeded' *)

SharedReasonOf(m, ip) ==
    IF MapHas(m, ip) /\ m[ip].reason # Nil THEN m[ip].reason ELSE DefaultReason

(* where a handler continues after the block check *)

AfterGateNoDenial(mw, isBlocked, saveRecords) ==
    IF mw = "blockIPs" THEN "next"
    ELSE IF saveRecords THEN "incr" ELSE "track"

AfterGate(mw, isBlocked, saveRecords) ==
    IF isBlocked THEN (IF saveRecords THEN "ttl" ELSE "deny")
    ELSE IF mw = "blockIPs" THEN "next"
    ELSE IF saveRecords THEN "incr" ELSE "track"

(* this.emit('attack-detected', ...): the subscribers run synchronously, in  *)
(* order of registration, inside handleAttackDetection before it blocks      *)

Emit(ip, blocked, cleared, invoked) ==
    emitted' = [emitted EXCEPT ![ip] =
                  [at |-> now, blocked |-> blocked, cleared |-> cleared,
                   invoked |-> invoked]]

(* res.on('finish', ...) and next() of monitorMiddleware *)

Pass(ip) ==
    /\ hooks' = hooks \cup {ip}
    /\ passedAt' = [passedAt EXCEPT ![ip] =
                      Last(Append(Prune(@, now), now), cfg.maxRequests + 1)]

(* the remaining time getBlockInfo reads; res.status(403).json(blockInfo) *)

ReadRemaining(d, blockedFor, until) ==
    [d EXCEPT !.checked = TRUE, !.blockedFor = blockedFor, !.until = until]

Respond403(d, reason) == [d EXCEPT !.valid = TRUE, !.reason = reason]

----------------------------------------------------------------------------
(* monitorMiddleware / blockIPsMiddleware: getClientIP and isIPBlocked(ip)  *)

Enter(h, mw, ip, route) ==
    /\ FirstFree(h)
    /\ LET r == IF cfg.saveRecords
                THEN [result |-> MapHas(redisBlocked, ip), blocked |-> BlockedMapOf(mw)]
                ELSE IsIPBlockedLocal(BlockedMapOf(mw), ip, now)
       IN  /\ req' = [req EXCEPT ![h] =
                        [IdleReq EXCEPT !.mw = mw, !.ip = ip, !.route = route,
                            !.pc = AfterGate(mw, r.result, cfg.saveRecords)]]
           /\ IF mw = "monitor"
              THEN localBlockedIPs' = r.blocked /\ UNCHANGED blockerBlockedIPs
              ELSE blockerBlockedIPs' = r.blocked /\ UNCHANGED localBlockedIPs
    /\ UNCHANGED <<now, ticks, cfg, localRequestCounts, localRouteScans,
                   redisCount, redisScan, redisBlocked, hooks, passedAt, denied>>
    /\ UNCHANGED emitted
    /\ UNCHANGED counted

MonitorMiddlewareOf(ids) ==
    \E h \in Slots, ip \in ids, route \in Routes : Enter(h, "monitor", ip, route)

BlockIPsMiddlewareOf(ids) ==
    \E h \in Slots, ip \in ids : Enter(h, "blockIPs", ip, "/")

(* blockIPsMiddleware: next() *)

BlockIPsNext(h) ==
    /\ req[h].pc = "next"
    /\ req' = [req EXCEPT ![h] = IdleReq]
    /\ UNCHANGED <<now, ticks, cfg, localRequestCounts, localRouteScans, localBlockedIPs,
                   blockerBlockedIPs, redisCount, redisScan, redisBlocked, hooks,
                   passedAt, denied>>
    /\ UNCHANGED emitted
    /\ UNCHANGED counted

(* getBlockInfo (local) and res.status(403).json(blockInfo) *)

LocalDeny(h) ==
    /\ req[h].pc = "deny"
    /\ LET m == BlockedMapOf(req[h].mw)
           ip == req[h].ip
       IN  IF MapHas(m, ip)
           THEN /\ req' = [req EXCEPT ![h] = IdleReq]
                /\ denied' = [denied EXCEPT ![ip] =
                      Respond403(ReadRemaining(@, RemainingTime(m[ip], now),
                                               m[ip].expiresAt), m[ip].reason)]
           ELSE \* blockInfo is undefined: reading blockInfo.expiresAt throws
                /\ req' = [req EXCEPT ![h] = [IdleReq EXCEPT !.pc = "threw"]]
                /\ UNCHANGED denied
    /\ UNCHANGED <<now, ticks, cfg, localRequestCounts, localRouteScans, localBlockedIPs,
                   blockerBlockedIPs, redisCount, redisScan, redisBlocked, hooks,
                   passedAt>>
    /\ UNCHANGED emitted
    /\ UNCHANGED counted

(* getBlockInfo (shared): redis.ttl, then redis.get of the reason *)

SharedTtl(h) ==
    /\ req[h].pc = "ttl"
    /\ req' = [req EXCEPT ![h].pc = "reason",
                 ![h].ttl = RedisTTL(redisBlocked, req[h].ip, now)]
    /\ denied' = [denied EXCEPT ![req[h].ip] =
          ReadRemaining(@, RedisTTL(redisBlocked, req[h].ip, now),
                        IF MapHas(redisBlocked, req[h].ip)
                        THEN redisBlocked[req[h].ip].exp ELSE now)]
    /\ UNCHANGED <<now, ticks, cfg, localRequestCounts, localRouteScans, localBlockedIPs,
                   blockerBlockedIPs, redisCount, redisScan, redisBlocked, hooks,
                   passedAt>>
    /\ UNCHANGED emitted
    /\ UNCHANGED counted

SharedReason(h) ==
    /\ req[h].pc = "reason"
    /\ req' = [req EXCEPT ![h] = IdleReq]
    /\ denied' = [denied EXCEPT ![req[h].ip] =
          Respond403(@, SharedReasonOf(redisBlocked, req[h].ip))]
    /\ UNCHANGED <<now, ticks, cfg, localRequestCounts, localRouteScans, localBlockedIPs,
                   blockerBlockedIPs, redisCount, redisScan, redisBlocked, hooks,
                   passedAt>>
    /\ UNCHANGED emitted
    /\ UNCHANGED counted

(* updateLocalTracking, handleAttackDetection (local), res.on, next() *)

LocalTrack(h) ==
    /\ req[h].pc = "track"
    /\ LET ip == req[h].ip
           u == UpdateLocalTracking(localRequestCounts, localRouteScans, ip,
                                    req[h].route, now, cfg.timeWindow)
           a == Classify(u.requestCount, u.scanCount, cfg)
           d == HandleAttackDetectionLocal(u.counts, u.scans, localBlockedIPs, ip, a, now)
       IN  /\ localRequestCounts' = d.counts
           /\ localRouteScans' = d.scans
           /\ localBlockedIPs' = d.blocked
           /\ Pass(ip)
           /\ denied' = [denied EXCEPT ![ip] = NoDeny]
           /\ IF a # NoAttack
              THEN Emit(ip, IsIPBlockedLocal(localBlockedIPs, ip, now).result,
                        ~MapHas(u.counts, ip) /\ ~MapHas(u.scans, ip), NumListeners)
              ELSE UNCHANGED emitted
           /\ counted' = [counted EXCEPT ![ip] =
                             Recorded(@, now, req[h].route, u, a # NoAttack)]
    /\ req' = [req EXCEPT ![h] = IdleReq]
    /\ UNCHANGED <<now, ticks, cfg, blockerBlockedIPs, redisCount, redisScan,
                   redisBlocked>>

(* redis.multi().incr(requestKey).expire(requestKey, timeWindow).exec() *)

SharedIncr(h) ==
    /\ req[h].pc = "incr"
    /\ LET ip == req[h].ip
           old == IF MapHas(redisCount, ip) THEN redisCount[ip].val ELSE 0
       IN  redisCount' = MapSet(redisCount, ip,
                [val |-> old + 1, exp |-> RedisExpireAt(now, cfg.timeWindow)])
    /\ req' = [req EXCEPT ![h].pc = "sadd"]
    /\ denied' = [denied EXCEPT ![req[h].ip] = NoDeny]
    /\ UNCHANGED <<now, ticks, cfg, localRequestCounts, localRouteScans, localBlockedIPs,
                   blockerBlockedIPs, redisScan, redisBlocked, hooks, passedAt>>
    /\ UNCHANGED emitted
    /\ UNCHANGED counted

(* redis.sadd(scanKey, route) *)

SharedSadd(h) ==
    /\ req[h].pc = "sadd"
    /\ LET ip == req[h].ip
       IN  redisScan' =
             IF MapHas(redisScan, ip)
             THEN MapSet(redisScan, ip,
                    [redisScan[ip] EXCEPT !.members = @ \cup {req[h].route}])
             ELSE MapSet(redisScan, ip, [members |-> {req[h].route}, exp |-> NoTTL])
    /\ req' = [req EXCEPT ![h].pc = "expire", ![h].route = IdleReq.route]
    /\ UNCHANGED <<now, ticks, cfg, localRequestCounts, localRouteScans, localBlockedIPs,
                   blockerBlockedIPs, redisCount, redisBlocked, hooks, passedAt, denied>>
    /\ UNCHANGED emitted
    /\ UNCHANGED counted

(* redis.expire(scanKey, timeWindow) *)

SharedExpire(h) ==
    /\ req[h].pc = "expire"
    /\ LET ip == req[h].ip
       IN  redisScan' =
             IF MapHas(redisScan, ip)
             THEN MapSet(redisScan, ip,
                    [redisScan[ip] EXCEPT !.exp = RedisExpireAt(now, cfg.timeWindow)])
             ELSE redisScan
    /\ req' = [req EXCEPT ![h].pc = "get"]
    /\ UNCHANGED <<now, ticks, cfg, localRequestCounts, localRouteScans, localBlockedIPs,
                   blockerBlockedIPs, redisCount, redisBlocked, hooks, passedAt, denied>>
    /\ UNCHANGED emitted
    /\ UNCHANGED counted

(* parseInt(await redis.get(requestKey)) *)

SharedGet(h) ==
    /\ req[h].pc = "get"
    /\ req' = [req EXCEPT ![h].pc = "scard",
                 ![h].requestCount =
                    IF MapHas(redisCount, req[h].ip) THEN redisCount[req[h].ip].val ELSE NaN]
    /\ UNCHANGED <<now, ticks, cfg, localRequestCounts, localRouteScans, localBlockedIPs,
                   blockerBlockedIPs, redisCount, redisScan, redisBlocked, hooks,
                   passedAt, denied>>
    /\ UNCHANGED emitted
    /\ UNCHANGED counted

(* parseInt(await redis.scard(scanKey)); handleAttackDetection up to its    *)
(* await (the verdict, the emit); without a verdict: res.on, next()         *)

SharedScard(h) ==
    /\ req[h].pc = "scard"
    /\ LET sc == IF MapHas(redisScan, req[h].ip)
                 THEN Cardinality(redisScan[req[h].ip].members) ELSE 0
           a == Classify(req[h].requestCount, sc, cfg)
       IN  IF a # NoAttack
           THEN /\ req' = [req EXCEPT ![h].pc = "block", ![h].attackType = a,
                                      ![h].requestCount = IdleReq.requestCount]
                /\ Emit(req[h].ip, MapHas(redisBlocked, req[h].ip),
                        ~MapHas(redisCount, req[h].ip) /\ ~MapHas(redisScan, req[h].ip),
                        NumListeners)
                /\ UNCHANGED <<hooks, passedAt>>
           ELSE /\ req' = [req EXCEPT ![h] = IdleReq]
                /\ Pass(req[h].ip)
                /\ UNCHANGED emitted
    /\ UNCHANGED <<now, ticks, cfg, localRequestCounts, localRouteScans, localBlockedIPs,
                   blockerBlockedIPs, redisCount, redisScan, redisBlocked, denied>>
    /\ UNCHANGED counted

(* redis.multi().set(blocked:ip,'1','EX',300).set(blocked:ip:reason,..)     *)
(* .exec(); then res.on, next()                                             *)

SharedBlock(h) ==
    /\ req[h].pc = "block"
    /\ redisBlocked' = MapSet(redisBlocked, req[h].ip,
           [exp |-> RedisExpireAt(now, BlockSeconds), reason |-> req[h].attackType])
    /\ req' = [req EXCEPT ![h] = IdleReq]
    /\ Pass(req[h].ip)
    /\ UNCHANGED <<now, ticks, cfg, localRequestCounts, localRouteScans, localBlockedIPs,
                   blockerBlockedIPs, redisCount, redisScan, denied>>
    /\ UNCHANGED emitted
    /\ UNCHANGED counted

(* the 'finish' hook: isIPBlocked(ip), then saveLog when saveRecords or blocked *)

Finish ==
    \E ip \in hooks :
      /\ hooks' = hooks \ {ip}
      /\ localBlockedIPs' = IF cfg.saveRecords THEN localBlockedIPs
                            ELSE IsIPBlockedLocal(localBlockedIPs, ip, now).blocked
      /\ UNCHANGED <<now, ticks, cfg, localRequestCounts, localRouteScans,
                     blockerBlockedIPs, redisCount, redisScan, redisBlocked, req,
                     passedAt, denied>>
      /\ UNCHANGED emitted
      /\ UNCHANGED counted

\* an abort that takes back the request's count and the identity's block
AbortRollsBack ==
    \E ip \in hooks :
      /\ hooks' = hooks \ {ip}
      /\ localRequestCounts' = MapDelete(localRequestCounts, ip)
      /\ localBlockedIPs' = MapDelete(localBlockedIPs, ip)
      /\ redisCount' = MapDelete(redisCount, ip)
      /\ redisBlocked' = MapDelete(redisBlocked, ip)
      /\ UNCHANGED <<now, ticks, cfg, localRouteScans, blockerBlockedIPs, redisScan,
                     req, passedAt, denied, emitted, counted>>

(* the request is aborted: 'finish' is never emitted *)

Abort ==
    \E ip \in hooks :
      /\ hooks' = hooks \ {ip}
      /\ UNCHANGED <<now, ticks, cfg, localRequestCounts, localRouteScans,
                     localBlockedIPs, blockerBlockedIPs, redisCount, redisScan,
                     redisBlocked, req, passedAt, denied>>
      /\ UNCHANGED emitted
      /\ UNCHANGED counted

(* the rejected promise of a handler that threw is dropped *)

Threw(h) ==
    /\ req[h].pc = "threw"
    /\ req' = [req EXCEPT ![h] = IdleReq]
    /\ UNCHANGED <<now, ticks, cfg, localRequestCounts, localRouteScans, localBlockedIPs,
                   blockerBlockedIPs, redisCount, redisScan, redisBlocked, hooks,
                   passedAt, denied>>
    /\ UNCHANGED emitted
    /\ UNCHANGED counted

----------------------------------------------------------------------------

LocalStep(h) ==
    \/ LocalDeny(h)
    \/ LocalTrack(h)
    \/ BlockIPsNext(h)
    \/ Threw(h)

SharedStep(h) ==
    \/ SharedTtl(h)
    \/ SharedReason(h)
    \/ SharedIncr(h)
    \/ SharedSadd(h)
    \/ SharedExpire(h)
    \/ SharedGet(h)
    \/ SharedScard(h)
    \/ SharedBlock(h)
    \/ BlockIPsNext(h)

(* Concurrent requests of one identity, in-memory maps *)

Tick == TickUpTo(MaxTicksLocal)

MonitorMiddleware == MonitorMiddlewareOf({"127.0.0.1"})

BlockIPsMiddleware == BlockIPsMiddlewareOf({"127.0.0.1"})

Next ==
    \/ Tick
    \/ MonitorMiddleware
    \/ BlockIPsMiddleware
    \/ \E h \in Slots : LocalStep(h)
    \/ Finish
    \/ Abort

Spec == Init /\ [][Next]_vars

(* Concurrent requests of one identity, Redis *)

SharedTick == TickUpTo(MaxTicksShared)

NextShared ==
    \/ SharedTick
    \/ MonitorMiddleware
    \/ BlockIPsMiddleware
    \/ \E h \in Slots : SharedStep(h)
    \/ Finish
    \/ Abort

SpecShared == InitShared /\ [][NextShared]_vars

(* Requests handled one after another: a request enters when the previous   *)
(* one is finished, its 'finish' hook included                              *)

Quiet == hooks = {} /\ \A h \in Slots : Free(h)

SeqTick == TickUpTo(MaxTicks)

SeqMonitorMiddleware == Quiet /\ MonitorMiddlewareOf({"127.0.0.1"})

SeqBlockIPsMiddleware == Quiet /\ BlockIPsMiddlewareOf({"127.0.0.1"})

\* with no other handler or hook pending, nothing deletes the entry between
\* isIPBlocked and getBlockInfo, so the failing read of Threw is never enabled
SeqLocalStep(h) ==
    \/ LocalDeny(h)
    \/ LocalTrack(h)

NextSeq ==
    \/ SeqTick
    \/ SeqMonitorMiddleware
    \/ SeqBlockIPsMiddleware
    \/ \E h \in Slots : SeqLocalStep(h)
    \/ \E h \in Slots : SharedStep(h)
    \/ Finish
    \/ Abort

SpecSeq == InitSeq /\ [][NextSeq]_vars

----------------------------------------------------------------------------
(* The verdict alone: handleAttackDetection applied to given counts *)

ClassifyOptions ==
    [ maxRequests : {0, 1, 2}, timeWindow : {60}, scanThreshold : {0, 1, 2},
      saveRecords : {FALSE} ]

InitClassify ==
    /\ now = 0
    /\ ticks = 0
    /\ \E o \in ClassifyOptions : cfg = Construct(o)
    /\ localRequestCounts = EmptyMap
    /\ localRouteScans = EmptyMap
    /\ localBlockedIPs = EmptyMap
    /\ blockerBlockedIPs = EmptyMap
    /\ redisCount = EmptyMap
    /\ redisScan = EmptyMap
    /\ redisBlocked = EmptyMap
    /\ \E rc \in NaN..MaxCount, sc \in 0..MaxScan :
         req = [h \in Slots |->
                  IF h = 1 THEN [IdleReq EXCEPT !.pc = "classify", !.requestCount = rc,
                                                !.scanCount = sc]
                  ELSE IdleReq]
    /\ hooks = {}
    /\ passedAt = [i \in Identities |-> <<>>]
    /\ denied = [i \in Identities |-> NoDeny]
    /\ emitted = [i \in Identities |-> NoEvent]
    /\ counted = [i \in Identities |-> NothingCounted]

ClassifyStep ==
    \E h \in Slots :
      /\ req[h].pc = "classify"
      /\ req' = [req EXCEPT ![h].pc = "classified",
                   ![h].attackType = Classify(req[h].requestCount, req[h].scanCount, cfg)]
      /\ UNCHANGED <<now, ticks, cfg, localRequestCounts, localRouteScans,
                     localBlockedIPs, blockerBlockedIPs, redisCount, redisScan,
                     redisBlocked, hooks, passedAt, denied>>
      /\ UNCHANGED emitted
      /\ UNCHANGED counted

SpecClassify == InitClassify /\ [][ClassifyStep]_vars

----------------------------------------------------------------------------
(* Vocabulary of the properties *)

\* the step in which a request enters middleware mw in slot h
Entered(h, mw) == req[h].pc = "idle" /\ req'[h].pc # "idle" /\ req'[h].mw = mw

\* the monitoring instance holds an unexpired block entry for ip
BlockActive(ip) ==
    IF cfg.saveRecords THEN MapHas(redisBlocked, ip)
    ELSE MapHas(localBlockedIPs, ip) /\ now < localBlockedIPs[ip].expiresAt

\* timestamps of ip recorded in the in-memory window that are inside the window now
InWindow(ip) ==
    IF MapHas(localRequestCounts, ip)
    THEN Len(SelectSeq(localRequestCounts[ip],
                       LAMBDA time : time > now - (cfg.timeWindow * MsPerSecond)))
    ELSE 0

\* distinct routes recorded for ip once route is added
RoutesWith(ip, route) ==
    Cardinality((IF MapHas(localRouteScans, ip) THEN localRouteScans[ip] ELSE {})
                \cup {route})

RedisScard(ip) ==
    IF MapHas(redisScan, ip) THEN Cardinality(redisScan[ip].members) ELSE 0

\* this step hands a request of ip to the next handler
PassedOn(ip) ==
    /\ ip \in hooks'
    /\ passedAt'[ip] # <<>>
    /\ passedAt'[ip][Len(passedAt'[ip])] = now

BlockMs == BlockSeconds * MsPerSecond

TrackingState == <<localRequestCounts, localRouteScans, redisCount, redisScan>>

----------------------------------------------------------------------------
C2_ExcessRequestDenied ==
    [][\A h \in Slots :
         LET ip == req[h].ip IN
         (req[h].pc = "track" /\ req'[h].pc # "track") =>
            /\ (InWindow(ip) + 1 <= cfg.maxRequests) => PassedOn(ip)
            /\ (InWindow(ip) + 1 = cfg.maxRequests + 1) =>
                  /\ denied'[ip].valid
                  /\ denied'[ip].reason = DDoS
                  /\ passedAt'[ip] = passedAt[ip]
      ]_vars

\* C3: with requests handled one after another and the request count at or
\* below maxRequests, the request that brings the recorded distinct routes to
\* scanThreshold + 1 gets the verdict Path Scanning and installs a block lasting
\* 300 s; while that block is unexpired every request entering is denied and
\* answered 403 (with that reason, in-memory maps).
C3_ScanThenBlock ==
    [][\A h \in Slots :
         LET ip == req[h].ip IN
         /\ (req[h].pc = "track" /\ req'[h].pc # "track"
               /\ InWindow(ip) + 1 <= cfg.maxRequests) =>
              /\ (RoutesWith(ip, req[h].route) = cfg.scanThreshold + 1) =>
                    /\ MapHas(localBlockedIPs', ip)
                    /\ localBlockedIPs'[ip] =
                         [expiresAt |-> now + BlockMs, reason |-> PathScanning]
              /\ (RoutesWith(ip, req[h].route) <= cfg.scanThreshold) =>
                    ~MapHas(localBlockedIPs', ip)
         /\ (req[h].pc = "scard" /\ req'[h].pc # "scard"
               /\ req[h].requestCount <= cfg.maxRequests) =>
              /\ (RedisScard(ip) = cfg.scanThreshold + 1) =>
                    (req'[h].pc = "block" /\ req'[h].attackType = PathScanning)
              /\ (RedisScard(ip) <= cfg.scanThreshold) => req'[h].pc = "idle"
         /\ (req[h].pc = "block" /\ req'[h].pc # "block"
               /\ req[h].attackType = PathScanning) =>
              /\ MapHas(redisBlocked', ip)
              /\ redisBlocked'[ip] = [exp |-> now + BlockMs, reason |-> PathScanning]
         /\ (Entered(h, "monitor") /\ BlockActive(req'[h].ip)) =>
              req'[h].pc \in {"deny", "ttl"}
         /\ (req[h].mw = "monitor" /\ req[h].pc = "deny" /\ req'[h].pc # "deny"
               /\ MapHas(localBlockedIPs, ip)
               /\ localBlockedIPs[ip].reason = PathScanning) =>
              (denied'[ip].valid /\ denied'[ip].reason = PathScanning)
         /\ (req[h].mw = "monitor" /\ req[h].pc = "reason" /\ req'[h].pc # "reason"
               /\ MapHas(redisBlocked, ip)
               /\ redisBlocked[ip].reason = PathScanning) =>
              (denied'[ip].valid /\ denied'[ip].reason = PathScanning)
      ]_vars

\* C3 witness: a request was answered 403 with the reason Path Scanning
C3_Witness ==
    \E ip \in Identities :
      /\ denied[ip].valid
      /\ denied[ip].reason = PathScanning
      /\ Len(passedAt[ip]) = cfg.scanThreshold + 1

\* C4: the verdict is DDoS iff requestCount > maxRequests, Path Scanning iff
\* requestCount <= maxRequests and scanCount > scanThreshold, and none
\* otherwise; a count equal to its threshold gives no verdict of its kind.
C4_Verdict ==
    \A h \in Slots :
      req[h].pc = "classified" =>
        LET rc == req[h].requestCount
            sc == req[h].scanCount
            a  == req[h].attackType
        IN  /\ a \in {DDoS, PathScanning, NoAttack}
            /\ (a = DDoS) <=> (rc > cfg.maxRequests)
            /\ (a = PathScanning) <=> (rc <= cfg.maxRequests /\ sc > cfg.scanThreshold)
            /\ (rc = cfg.maxRequests /\ sc = cfg.scanThreshold) => a = NoAttack

\* C4 witness: both thresholds exceeded, the verdict computed is the rate one
C4_Witness ==
    \E h \in Slots :
      /\ req[h].pc = "classified"
      /\ req[h].requestCount > cfg.maxRequests
      /\ req[h].scanCount > cfg.scanThreshold
      /\ req[h].attackType = DDoS

\* the reason a denial of ip carries: the stored one, or the default of the
\* shared backend when no reason key is stored
StoredReason(ip) ==
    IF cfg.saveRecords
    THEN (IF redisBlocked[ip].reason = Nil THEN DefaultReason ELSE redisBlocked[ip].reason)
    ELSE localBlockedIPs[ip].reason

C6_BlockerDeniesMonitorBlocks ==
    [][\A h \in Slots :
         (Entered(h, "blockIPs") /\ BlockActive(req'[h].ip)) =>
            req'[h].pc \in {"deny", "ttl"}
      ]_vars

\* C7: at most maxRequests requests of one identity are handed on within any
\* interval of timeWindow seconds
C7_AtMostMaxRequestsPass ==
    \A ip \in Identities : Len(passedAt[ip]) <= cfg.maxRequests

\* C8: in-memory isIPBlocked at time now reports blocked iff an entry exists and
\* now < expiresAt; an entry with now >= expiresAt is reported not blocked and
\* removed; with no entry the answer is not blocked and the map is unchanged.
C8_IsIPBlockedLocal ==
    [][\A h \in Slots :
         Entered(h, "monitor") =>
           LET ip  == req'[h].ip
               has == MapHas(localBlockedIPs, ip)
           IN  /\ (req'[h].pc = "deny") <=> (has /\ now < localBlockedIPs[ip].expiresAt)
               /\ req'[h].pc \in {"deny", "track"}
               /\ (has /\ now >= localBlockedIPs[ip].expiresAt) =>
                     localBlockedIPs' = MapDelete(localBlockedIPs, ip)
               /\ (~has \/ now < localBlockedIPs[ip].expiresAt) =>
                     localBlockedIPs' = localBlockedIPs
      ]_vars

\* C8 witness: an identity denied earlier has reached the expiry of that block,
\* and its next request found the entry expired, removed it and went on to
\* tracking
C8_Witness ==
    \E h \in Slots :
      LET ip == req[h].ip IN
      /\ req[h].mw = "monitor"
      /\ req[h].pc = "track"
      /\ denied[ip].valid
      /\ now >= denied[ip].until
      /\ ~MapHas(localBlockedIPs, ip)

\* C9: while a block entry is unexpired no step removes it or changes its
\* expiry or reason
C9_EntryFixedUntilExpiry ==
    [][\A ip \in Identities :
         /\ (MapHas(redisBlocked, ip) /\ RedisLive(redisBlocked[ip], now')) =>
              (MapHas(redisBlocked', ip) /\ redisBlocked'[ip] = redisBlocked[ip])
         /\ (MapHas(localBlockedIPs, ip) /\ now' < localBlockedIPs[ip].expiresAt) =>
              (MapHas(localBlockedIPs', ip) /\ localBlockedIPs'[ip] = localBlockedIPs[ip])
      ]_vars

\* C10: until the block whose remaining time was reported expires, a later
\* denial of the identity never reports a larger blockedFor than the earlier one
C10_BlockedForNeverGrows ==
    [][\A ip \in Identities :
         (denied[ip].checked /\ denied'[ip].checked /\ now < denied[ip].until) =>
            denied'[ip].blockedFor <= denied[ip].blockedFor
      ]_vars

\* the block whose denial was last sent to ip has expired
BlockExpired(ip) == denied[ip].valid /\ now >= denied[ip].until /\ ~BlockActive(ip)

\* C11: the first request of an identity after its block expired is not
\* denied, is counted as request number 1 of a fresh window and installs no
\* block, in both backends and for every timeWindow
C11_FreshAfterExpiry ==
    [][\A h \in Slots :
         /\ (Entered(h, "monitor") /\ BlockExpired(req'[h].ip)) =>
              req'[h].pc \in {"track", "incr"}
         /\ (req[h].pc = "track" /\ req'[h].pc # "track" /\ BlockExpired(req[h].ip)) =>
              /\ localRequestCounts'[req[h].ip] = <<now>>
              /\ ~MapHas(localBlockedIPs', req[h].ip)
              /\ emitted' = emitted
         /\ (req[h].pc = "incr" /\ req'[h].pc # "incr" /\ BlockExpired(req[h].ip)) =>
              /\ redisCount'[req[h].ip].val = 1
              /\ ~MapHas(redisScan, req[h].ip)
      ]_vars

\* the step of handler h in which handleAttackDetection emits 'attack-detected':
\* the verdict of the shared branch, or the verdict of the in-memory branch
\* (the only step that leaves the identity without a request window)
EmitsAt(h) ==
    \/ req[h].pc = "scard" /\ req'[h].pc = "block"
    \/ req[h].pc = "track" /\ req'[h].pc # "track"
         /\ ~MapHas(localRequestCounts', req[h].ip)

\* the step of handler h that ends its classification without a verdict
NoVerdictAt(h) ==
    \/ req[h].pc = "scard" /\ req'[h].pc = "idle"
    \/ req[h].pc = "track" /\ req'[h].pc # "track"
         /\ MapHas(localRequestCounts', req[h].ip)

\* C12: between two block expiries of an identity at most one event is emitted
\* for it (blocks last 300 s, so two emissions for one identity are at least
\* 300 s apart), and a request without a verdict emits nothing
C12_OneEventPerBlock ==
    [][\A h \in Slots :
         /\ EmitsAt(h) =>
              (emitted[req[h].ip].at = Never \/ now >= emitted[req[h].ip].at + BlockMs)
         /\ NoVerdictAt(h) => emitted' = emitted
      ]_vars

----------------------------------------------------------------------------
(* Two monitors built from the same numeric options, one on the in-memory   *)
(* maps and one on Redis, each handling the same requests whole, one after  *)
(* another: slot 1 holds the outcome of the in-memory monitor, slot 2 the   *)
(* outcome of the Redis one                                                 *)

\* monitorMiddleware on the in-memory maps, from isIPBlocked to next()
HandleLocal(counts, scans, blocked, ip, route, t, c) ==
    LET r == IsIPBlockedLocal(blocked, ip, t) IN
    IF r.result
    THEN [ counts |-> counts, scans |-> scans, blocked |-> r.blocked,
           outcome |-> "denied", attackType |-> NoAttack ]
    ELSE LET u == UpdateLocalTracking(counts, scans, ip, route, t, c.timeWindow)
             a == Classify(u.requestCount, u.scanCount, c)
             d == HandleAttackDetectionLocal(u.counts, u.scans, r.blocked, ip, a, t)
         IN  [ counts |-> d.counts, scans |-> d.scans, blocked |-> d.blocked,
               outcome |-> "passed", attackType |-> a ]

\* monitorMiddleware on Redis, from isIPBlocked to next()
HandleShared(count, scan, blocked, ip, route, t, c) ==
    IF MapHas(blocked, ip)
    THEN [ count |-> count, scan |-> scan, blocked |-> blocked,
           outcome |-> "denied", attackType |-> NoAttack ]
    ELSE LET old == IF MapHas(count, ip) THEN count[ip].val ELSE 0
             count1 == MapSet(count, ip,
                          [val |-> old + 1, exp |-> RedisExpireAt(t, c.timeWindow)])
             members == (IF MapHas(scan, ip) THEN scan[ip].members ELSE {}) \cup {route}
             scan1 == MapSet(scan, ip,
                          [members |-> members, exp |-> RedisExpireAt(t, c.timeWindow)])
             a == Classify(count1[ip].val, Cardinality(members), c)
         IN  [ count |-> count1, scan |-> scan1,
               blocked |-> IF a # NoAttack
                           THEN MapSet(blocked, ip,
                                  [exp |-> RedisExpireAt(t, BlockSeconds), reason |-> a])
                           ELSE blocked,
               outcome |-> "passed", attackType |-> a ]

PairOptions == {o \in Options : ~o.saveRecords}

InitPair ==
    /\ InitWith(PairOptions)
    /\ localBlockedIPs = EmptyMap

\* arrival times two thirds of a window apart, or a little more than a block apart
PairTickSteps ==
    {(2 * cfg.timeWindow * MsPerSecond) \div 3, (BlockSeconds * MsPerSecond) + 20000}

PairTick ==
    /\ ticks < MaxTicks
    /\ \E d \in PairTickSteps :
         /\ now' = now + d
         /\ redisCount' = RedisPurge(redisCount, now + d)
         /\ redisScan' = RedisPurge(redisScan, now + d)
         /\ redisBlocked' = RedisPurge(redisBlocked, now + d)
    /\ ticks' = ticks + 1
    /\ UNCHANGED <<cfg, localRequestCounts, localRouteScans, localBlockedIPs,
                   blockerBlockedIPs, req, hooks, passedAt, denied, emitted, counted>>

PairRequest ==
    \E route \in Routes :
      LET ip == "127.0.0.1"
          l == HandleLocal(localRequestCounts, localRouteScans, localBlockedIPs,
                           ip, route, now, cfg)
          g == HandleShared(redisCount, redisScan, redisBlocked, ip, route, now, cfg)
      IN  /\ localRequestCounts' = l.counts
          /\ localRouteScans' = l.scans
          /\ localBlockedIPs' = l.blocked
          /\ redisCount' = g.count
          /\ redisScan' = g.scan
          /\ redisBlocked' = g.blocked
          /\ req' = [h \in Slots |->
                       IF h = 1 THEN [IdleReq EXCEPT !.pc = l.outcome,
                                                     !.attackType = l.attackType]
                       ELSE IF h = 2 THEN [IdleReq EXCEPT !.pc = g.outcome,
                                                          !.attackType = g.attackType]
                       ELSE IdleReq]
          /\ UNCHANGED <<now, ticks, cfg, blockerBlockedIPs, hooks, passedAt, denied,
                         emitted, counted>>

NextPair ==
    \/ PairTick
    \/ PairRequest

SpecPair == InitPair /\ [][NextPair]_vars

\* the instants at which something stored by either monitor expires
ExpiryInstants ==
    UNION { {localBlockedIPs[i].expiresAt} : i \in DOMAIN localBlockedIPs }
    \cup UNION { {localRequestCounts[i][k] + (cfg.timeWindow * MsPerSecond) :
                    k \in DOMAIN localRequestCounts[i]} : i \in DOMAIN localRequestCounts }
    \cup { redisCount[i].exp : i \in DOMAIN redisCount }
    \cup { redisScan[i].exp : i \in DOMAIN redisScan }
    \cup { redisBlocked[i].exp : i \in DOMAIN redisBlocked }

\* C13: a request arriving away from every expiry instant gets the same
\* verdict and the same allow/deny outcome from the in-memory monitor and
\* from the Redis monitor that handled the same requests before
C13_BackendsAgree ==
    [][(now' = now /\ now \notin ExpiryInstants) =>
         /\ req'[1].pc = req'[2].pc
         /\ req'[1].attackType = req'[2].attackType
      ]_vars

----------------------------------------------------------------------------
(* Faults: a subscriber of 'attack-detected' throws, a Redis call rejects.   *)
(* Requests are handled one after another.                                   *)

\* updateLocalTracking, then handleAttackDetection up to the emit: subscriber
\* number k throws, the exception leaves emit and rejects the promises of
\* handleAttackDetection and monitorMiddleware
LocalTrackThrow(h) ==
    /\ req[h].pc = "track"
    /\ LET ip == req[h].ip
           u == UpdateLocalTracking(localRequestCounts, localRouteScans, ip,
                                    req[h].route, now, cfg.timeWindow)
           a == Classify(u.requestCount, u.scanCount, cfg)
       IN  /\ a # NoAttack
           /\ u.requestCount <= cfg.maxRequests + MaxFaults
           /\ localRequestCounts' = u.counts
           /\ localRouteScans' = u.scans
           /\ \E k \in 1..NumListeners :
                Emit(ip, IsIPBlockedLocal(localBlockedIPs, ip, now).result,
                     ~MapHas(u.counts, ip) /\ ~MapHas(u.scans, ip), k)
           /\ denied' = [denied EXCEPT ![ip] = NoDeny]
           /\ counted' = [counted EXCEPT ![ip] = Recorded(@, now, req[h].route, u, FALSE)]
    /\ req' = [req EXCEPT ![h] = [IdleReq EXCEPT !.pc = "threw"]]
    /\ UNCHANGED <<now, ticks, cfg, localBlockedIPs, blockerBlockedIPs, redisCount,
                   redisScan, redisBlocked, hooks, passedAt>>

\* the same in the shared branch, after redis.scard
SharedScardThrow(h) ==
    /\ req[h].pc = "scard"
    /\ LET sc == IF MapHas(redisScan, req[h].ip)
                 THEN Cardinality(redisScan[req[h].ip].members) ELSE 0
       IN  /\ Classify(req[h].requestCount, sc, cfg) # NoAttack
           /\ req[h].requestCount <= cfg.maxRequests + MaxFaults
    /\ \E k \in 1..NumListeners :
         Emit(req[h].ip, MapHas(redisBlocked, req[h].ip),
              ~MapHas(redisCount, req[h].ip) /\ ~MapHas(redisScan, req[h].ip), k)
    /\ req' = [req EXCEPT ![h] = [IdleReq EXCEPT !.pc = "threw"]]
    /\ UNCHANGED <<now, ticks, cfg, localRequestCounts, localRouteScans, localBlockedIPs,
                   blockerBlockedIPs, redisCount, redisScan, redisBlocked, hooks,
                   passedAt, denied>>
    /\ UNCHANGED counted

StoreStages == {"incr", "sadd", "expire", "get", "scard", "block", "ttl", "reason"}

CountOf(ip) == IF MapHas(redisCount, ip) THEN redisCount[ip].val ELSE 0

\* an awaited Redis call of monitorMiddleware, handleAttackDetection or
\* getBlockInfo rejects: nothing is written, no try/catch is around it
SharedFail(h) ==
    /\ req[h].pc \in StoreStages
    /\ CountOf(req[h].ip) <= cfg.maxRequests + MaxFaults
    /\ req' = [req EXCEPT ![h] = [IdleReq EXCEPT !.pc = "failed", !.ip = req[h].ip,
                                                 !.mw = req[h].mw]]
    /\ UNCHANGED <<now, ticks, cfg, localRequestCounts, localRouteScans, localBlockedIPs,
                   blockerBlockedIPs, redisCount, redisScan, redisBlocked, hooks,
                   passedAt, denied, emitted, counted>>

\* redis.get of isIPBlocked rejects: the catch returns false
EnterFail(h, mw, ip, route) ==
    /\ cfg.saveRecords
    /\ FirstFree(h)
    /\ CountOf(ip) <= cfg.maxRequests + MaxFaults
    /\ req' = [req EXCEPT ![h] =
                 [IdleReq EXCEPT !.mw = mw, !.ip = ip, !.route = route,
                                 !.pc = AfterGate(mw, FALSE, cfg.saveRecords)]]
    /\ UNCHANGED <<now, ticks, cfg, localRequestCounts, localRouteScans, localBlockedIPs,
                   blockerBlockedIPs, redisCount, redisScan, redisBlocked, hooks,
                   passedAt, denied, emitted, counted>>

GateFails ==
    /\ Quiet
    /\ \E h \in Slots, mw \in {"monitor", "blockIPs"}, route \in Routes :
         EnterFail(h, mw, "127.0.0.1", IF mw = "monitor" THEN route ELSE "/")

\* the rejected promise of monitorMiddleware is dropped: no response is sent
Rejected(h) ==
    /\ req[h].pc = "failed"
    /\ req' = [req EXCEPT ![h] = IdleReq]
    /\ UNCHANGED <<now, ticks, cfg, localRequestCounts, localRouteScans, localBlockedIPs,
                   blockerBlockedIPs, redisCount, redisScan, redisBlocked, hooks,
                   passedAt, denied, emitted, counted>>

(* A subscriber may throw; both backends *)

ThrowOptions == {o \in Options : o.timeWindow = 60}

InitThrow == InitWith(ThrowOptions)

NextThrow ==
    \/ SeqTick
    \/ SeqMonitorMiddleware
    \/ SeqBlockIPsMiddleware
    \/ \E h \in Slots : SeqLocalStep(h)
    \/ \E h \in Slots : SharedStep(h)
    \/ \E h \in Slots : LocalTrackThrow(h)
    \/ \E h \in Slots : SharedScardThrow(h)
    \/ \E h \in Slots : Threw(h)
    \/ Finish
    \/ Abort

SpecThrow == InitThrow /\ [][NextThrow]_vars

(* A Redis call may reject; shared mode *)

NextStoreFail ==
    \/ SharedTick
    \/ SeqMonitorMiddleware
    \/ SeqBlockIPsMiddleware
    \/ GateFails
    \/ \E h \in Slots : SharedStep(h)
    \/ \E h \in Slots : SharedFail(h)
    \/ \E h \in Slots : Rejected(h)
    \/ Finish
    \/ Abort

SpecStoreFail == InitShared /\ [][NextStoreFail]_vars

\* the step of handler h in which a subscriber throws inside emit
SubscriberThrowsAt(h) == req[h].pc \in {"track", "scard"} /\ req'[h].pc = "threw"

\* C14: when a subscriber throws, the remaining subscribers are still invoked
\* and the request goes on: the block is installed, the tracking state is
\* cleared and the request is handed to the next handler (in shared mode the
\* handler goes on to the store call that installs the block)
C14_ThrowingSubscriberIsolated ==
    [][\A h \in Slots :
         SubscriberThrowsAt(h) =>
           LET ip == req[h].ip IN
           /\ emitted'[ip].invoked = NumListeners
           /\ IF cfg.saveRecords
              THEN req'[h].pc = "block"
              ELSE /\ MapHas(localBlockedIPs', ip)
                   /\ ~MapHas(localRequestCounts', ip)
                   /\ ~MapHas(localRouteScans', ip)
                   /\ PassedOn(ip)
      ]_vars

\* the step of handler h in which an awaited Redis call rejects
StoreCallFailsAt(h) == req[h].pc \in StoreStages /\ req'[h].pc = "failed"

\* C15: a request whose store call fails gets no verdict and no block, the
\* error does not leave the middleware, and the request is handed to the next
\* handler
C15_StoreFailureFailsSoft ==
    [][\A h \in Slots :
         StoreCallFailsAt(h) =>
           /\ PassedOn(req[h].ip)
           /\ redisBlocked' = redisBlocked
           /\ emitted' = emitted
      ]_vars

----------------------------------------------------------------------------
(* The constructor alone, with every option possibly omitted *)

Absent == -1                \* a numeric option that is not given (undefined)
Undefined == "undefined"    \* a string or boolean option (or environment variable) not given

NumberOr(v, d) == IF v = Absent \/ v = 0 THEN d ELSE v          \* v || d
StringOr(v, d) == IF v = Undefined \/ v = "" THEN d ELSE v      \* v || d
Missing(v) == v = Undefined \/ v = ""                           \* !v

\* instead of throwing, run on the in-memory maps
ConstructorFallback(options, env) ==
    LET saveRecords == options.saveRecords = "true"
        mongoURI == StringOr(options.mongoURI, env.MONGO_URI)
        redisURL == StringOr(options.redisURL, env.REDIS_URL)
        usable == saveRecords /\ ~Missing(mongoURI) /\ ~Missing(redisURL)
    IN  [ state |-> "constructed", options |-> options, env |-> env,
          maxRequests |-> NumberOr(options.maxRequests, DefaultMaxRequests),
          timeWindow |-> NumberOr(options.timeWindow, DefaultTimeWindow),
          scanThreshold |-> NumberOr(options.scanThreshold, DefaultScanThreshold),
          saveRecords |-> usable,
          connected |-> IF usable THEN {"mongo", "redis"} ELSE {},
          localMaps |-> ~usable ]

Constructor(options, env) ==
    LET saveRecords == options.saveRecords = "true"    \* options.saveRecords || false
        mongoURI == StringOr(options.mongoURI, env.MONGO_URI)
        redisURL == StringOr(options.redisURL, env.REDIS_URL)
        throws == saveRecords /\ (Missing(mongoURI) \/ Missing(redisURL))
    IN  [ state |-> IF throws THEN "threw" ELSE "constructed",
          options |-> options, env |-> env,
          maxRequests |-> NumberOr(options.maxRequests, DefaultMaxRequests),
          timeWindow |-> NumberOr(options.timeWindow, DefaultTimeWindow),
          scanThreshold |-> NumberOr(options.scanThreshold, DefaultScanThreshold),
          saveRecords |-> saveRecords,
          connected |-> IF saveRecords /\ ~throws THEN {"mongo", "redis"} ELSE {},
          localMaps |-> ~saveRecords ]

NumberOptions == {Absent, 0, 1, 2}

URIs == {Undefined, "", "uri"}

ConstructorOptions ==
    [ maxRequests : NumberOptions, timeWindow : NumberOptions, scanThreshold : NumberOptions,
      saveRecords : {Undefined, "false", "true"}, mongoURI : URIs, redisURL : URIs ]

Environments == [ MONGO_URI : URIs, REDIS_URL : URIs ]

InitConstruct ==
    /\ now = 0
    /\ ticks = 0
    /\ \E o \in ConstructorOptions, e \in Environments :
         cfg = [state |-> "new", options |-> o, env |-> e]
    /\ localRequestCounts = EmptyMap
    /\ localRouteScans = EmptyMap
    /\ localBlockedIPs = EmptyMap
    /\ blockerBlockedIPs = EmptyMap
    /\ redisCount = EmptyMap
    /\ redisScan = EmptyMap
    /\ redisBlocked = EmptyMap
    /\ req = [h \in Slots |-> IdleReq]
    /\ hooks = {}
    /\ passedAt = [i \in Identities |-> <<>>]
    /\ denied = [i \in Identities |-> NoDeny]
    /\ emitted = [i \in Identities |-> NoEvent]
    /\ counted = [i \in Identities |-> NothingCounted]

ConstructStep ==
    /\ cfg.state = "new"
    /\ cfg' = Constructor(cfg.options, cfg.env)
    /\ UNCHANGED <<now, ticks, localRequestCounts, localRouteScans, localBlockedIPs,
                   blockerBlockedIPs, redisCount, redisScan, redisBlocked, req, hooks,
                   passedAt, denied, emitted, counted>>

SpecConstruct == InitConstruct /\ [][ConstructStep]_vars

\* neither the options nor the environment give the value
NotGiven(option, variable) ==
    /\ option \in {Undefined, ""}
    /\ variable \in {Undefined, ""}

\* C16: constructing with saveRecords true and no Mongo URI or no Redis URL (in
\* the options or the environment) throws: no monitor results, no in-memory
\* maps are set up and no connection is attempted
C16_SharedModeNeedsBothURIs ==
    (cfg.state # "new" /\ cfg.options.saveRecords = "true"
       /\ (NotGiven(cfg.options.mongoURI, cfg.env.MONGO_URI)
             \/ NotGiven(cfg.options.redisURL, cfg.env.REDIS_URL))) =>
      /\ cfg.state = "threw"
      /\ ~cfg.localMaps
      /\ cfg.connected = {}

\* C16 witness: saveRecords true, a Mongo URI in the options, no Redis URL
\* anywhere: the constructor threw
C16_Witness ==
    /\ cfg.state = "threw"
    /\ cfg.options.saveRecords = "true"
    /\ cfg.options.mongoURI = "uri"
    /\ NotGiven(cfg.options.redisURL, cfg.env.REDIS_URL)

\* C17: an omitted option gets its default (10, 60, 5, ephemeral backend) and a
\* provided numeric option is used exactly as provided, 0 included
C17_OptionsUsedAsProvided ==
    cfg.state = "constructed" =>
      /\ cfg.maxRequests = (IF cfg.options.maxRequests = Absent
                            THEN DefaultMaxRequests ELSE cfg.options.maxRequests)
      /\ cfg.timeWindow = (IF cfg.options.timeWindow = Absent
                           THEN DefaultTimeWindow ELSE cfg.options.timeWindow)
      /\ cfg.scanThreshold = (IF cfg.options.scanThreshold = Absent
                              THEN DefaultScanThreshold ELSE cfg.options.scanThreshold)
      /\ (cfg.options.saveRecords = Undefined => (~cfg.saveRecords /\ cfg.localMaps))

----------------------------------------------------------------------------
(* getClientIP alone.  A string is the sequence of its characters.          *)

UndefinedString == <<"undefined">>   \* a header or property that is not set

Truthy(str) == str # UndefinedString /\ str # <<>>

Comma == ","
Whitespace == {" "}

\* str.split(',')[0]
FirstField(str) ==
    LET commas == {i \in 1..Len(str) : str[i] = Comma}
    IN  IF commas = {} THEN str
        ELSE SubSeq(str, 1, (CHOOSE i \in commas : \A j \in commas : i <= j) - 1)

\* str.trim()
Trim(str) ==
    LET solid == {i \in 1..Len(str) : str[i] \notin Whitespace}
    IN  IF solid = {} THEN <<>>
        ELSE SubSeq(str, CHOOSE i \in solid : \A j \in solid : i <= j,
                         CHOOSE i \in solid : \A j \in solid : i >= j)

\* str.startsWith(prefix), str.substring(n)
StartsWith(str, prefix) ==
    Len(str) >= Len(prefix) /\ SubSeq(str, 1, Len(prefix)) = prefix

Substring(str, n) == SubSeq(str, n + 1, Len(str))

V6Loopback == <<":", ":", "1">>
MappedPrefix == <<":", ":", "f", "f", "f", "f", ":">>
Loopback == <<"1", "2", "7", ".", "0", ".", "0", ".", "1">>
MappedLoopback == MappedPrefix \o Loopback
Unspecified == <<"0", ".", "0", ".", "0", ".", "0">>
PrefixLength == 7

\* x-real-ip is consulted before x-forwarded-for
GetClientIPRealIPFirst(r) ==
    LET first == IF Truthy(r.xRealIP) THEN r.xRealIP
                 ELSE IF Truthy(r.forwardedFor) THEN Trim(FirstField(r.forwardedFor))
                 ELSE IF Truthy(r.connection) THEN r.connection
                 ELSE IF Truthy(r.socket) THEN r.socket
                 ELSE IF Truthy(r.ip) THEN r.ip
                 ELSE Unspecified
    IN  IF first = V6Loopback \/ first = MappedLoopback THEN Loopback
        ELSE IF StartsWith(first, MappedPrefix) THEN Substring(first, PrefixLength)
        ELSE first

GetClientIP(r) ==
    LET first == IF Truthy(r.forwardedFor) THEN Trim(FirstField(r.forwardedFor))
                 ELSE IF Truthy(r.xRealIP) THEN r.xRealIP
                 ELSE IF Truthy(r.connection) THEN r.connection
                 ELSE IF Truthy(r.socket) THEN r.socket
                 ELSE IF Truthy(r.ip) THEN r.ip
                 ELSE Unspecified
    IN  IF first = V6Loopback \/ first = MappedLoopback THEN Loopback
        ELSE IF StartsWith(first, MappedPrefix) THEN Substring(first, PrefixLength)
        ELSE first

(* request metadata *)

Peer == <<"1", "0", ".", "0", ".", "0", ".", "2">>
Proxy == <<"1", "0", ".", "0", ".", "0", ".", "9">>
NotMapped == <<":", ":", "f", "f", "f", "e", ":", "1">>

Addresses ==
    { Peer, Loopback, V6Loopback, MappedLoopback, MappedPrefix \o Peer, MappedPrefix,
      NotMapped }

ForwardedFors ==
    { UndefinedString, <<>>, <<" ">>, <<Comma>>, <<" ", Comma, " ">> \o Peer }
    \cup Addresses
    \cup { a \o <<Comma, " ">> \o Proxy : a \in Addresses }
    \cup { <<" ">> \o a \o <<" ", Comma>> \o Proxy : a \in Addresses }

Requests ==
    [ forwardedFor : ForwardedFors,
      xRealIP : {UndefinedString, <<>>, Proxy, MappedPrefix \o Proxy},
      connection : {UndefinedString, Peer, V6Loopback, MappedLoopback},
      socket : {UndefinedString, Proxy},
      ip : {UndefinedString, Loopback} ]

InitResolve ==
    /\ now = 0
    /\ ticks = 0
    /\ cfg = Construct([maxRequests |-> 0, timeWindow |-> 0, scanThreshold |-> 0,
                        saveRecords |-> FALSE])
    /\ localRequestCounts = EmptyMap
    /\ localRouteScans = EmptyMap
    /\ localBlockedIPs = EmptyMap
    /\ blockerBlockedIPs = EmptyMap
    /\ redisCount = EmptyMap
    /\ redisScan = EmptyMap
    /\ redisBlocked = EmptyMap
    /\ \E r \in Requests :
         req = [h \in Slots |->
                  IF h = 1 THEN [pc |-> "resolve", request |-> r, ip |-> UndefinedString]
                  ELSE [pc |-> "idle", request |-> r, ip |-> UndefinedString]]
    /\ hooks = {}
    /\ passedAt = [i \in Identities |-> <<>>]
    /\ denied = [i \in Identities |-> NoDeny]
    /\ emitted = [i \in Identities |-> NoEvent]
    /\ counted = [i \in Identities |-> NothingCounted]

ResolveStep ==
    \E h \in Slots :
      /\ req[h].pc = "resolve"
      /\ req' = [req EXCEPT ![h].pc = "resolved", ![h].ip = GetClientIP(req[h].request)]
      /\ UNCHANGED <<now, ticks, cfg, localRequestCounts, localRouteScans,
                     localBlockedIPs, blockerBlockedIPs, redisCount, redisScan,
                     redisBlocked, hooks, passedAt, denied, emitted, counted>>

SpecResolve == InitResolve /\ [][ResolveStep]_vars

----------------------------------------------------------------------------
(* C18 *)

Resolved(h) == req[h].pc = "resolved"

Defined(str) == str # UndefinedString

\* field is the part of str before its first comma (all of str if it has none)
IsFirstValue(field, str) ==
    /\ Len(field) <= Len(str)
    /\ \A i \in 1..Len(field) : field[i] = str[i] /\ field[i] # Comma
    /\ Len(field) < Len(str) => str[Len(field) + 1] = Comma

\* inner is outer without its leading and trailing blanks
IsTrimmed(inner, outer) ==
    /\ inner # <<>> => inner[1] \notin Whitespace /\ inner[Len(inner)] \notin Whitespace
    /\ \E lead \in 0..Len(outer) :
         /\ lead + Len(inner) <= Len(outer)
         /\ \A i \in 1..Len(outer) :
              IF i > lead /\ i <= lead + Len(inner) THEN outer[i] = inner[i - lead]
              ELSE outer[i] \in Whitespace

\* result is the normal form of chosen
IsNormalized(result, chosen) ==
    IF chosen = V6Loopback \/ chosen = MappedLoopback THEN result = Loopback
    ELSE IF Len(chosen) >= PrefixLength
            /\ \A i \in 1..PrefixLength : chosen[i] = MappedPrefix[i]
         THEN MappedPrefix \o result = chosen
    ELSE result = chosen

\* whether a header or address counts as present: when it is a non-empty
\* string (nonEmpty), or whenever the request carries it
Present(str, nonEmpty) == IF nonEmpty THEN Truthy(str) ELSE Defined(str)

\* chosen is the value the precedence selects from r
IsChosen(chosen, r, nonEmpty) ==
    IF Present(r.forwardedFor, nonEmpty)
    THEN \E n \in 0..Len(r.forwardedFor) :
           /\ IsFirstValue(SubSeq(r.forwardedFor, 1, n), r.forwardedFor)
           /\ IsTrimmed(chosen, SubSeq(r.forwardedFor, 1, n))
    ELSE IF Present(r.xRealIP, nonEmpty) THEN chosen = r.xRealIP
    ELSE IF Present(r.connection, nonEmpty) THEN chosen = r.connection
    ELSE IF Present(r.socket, nonEmpty) THEN chosen = r.socket
    ELSE IF Present(r.ip, nonEmpty) THEN chosen = r.ip
    ELSE chosen = Unspecified

Candidates(r) ==
    {Unspecified, r.xRealIP, r.connection, r.socket, r.ip}
    \cup (IF Defined(r.forwardedFor)
          THEN {SubSeq(r.forwardedFor, i, j) :
                  i \in 1..(Len(r.forwardedFor) + 1), j \in 0..Len(r.forwardedFor)}
          ELSE {})

FollowsPrecedence(h, nonEmpty) ==
    \E chosen \in Candidates(req[h].request) :
      /\ IsChosen(chosen, req[h].request, nonEmpty)
      /\ IsNormalized(req[h].ip, chosen)

\* C18 (as amended): the resolved identity is the normal form of the first
\* comma-separated value of x-forwarded-for, trimmed, when that header is a
\* non-empty string; else of x-real-ip, else of the transport peer address
\* (connection, socket, req.ip), each taken when it is a non-empty string;
\* else of '0.0.0.0'.  Normal form: '::1' and '::ffff:127.0.0.1' become
\* '127.0.0.1', any other value starting with '::ffff:' loses that prefix,
\* every other value is unchanged.
C18_PrecedenceNonEmpty ==
    \A h \in Slots : Resolved(h) => FollowsPrecedence(h, TRUE)

\* a forwarded value with blanks and a mapped prefix wins over x-real-ip
C18_Witness ==
    \E h \in Slots :
      /\ Resolved(h)
      /\ req[h].request.forwardedFor = <<" ">> \o MappedPrefix \o Peer \o <<" ", Comma>> \o Proxy
      /\ Truthy(req[h].request.xRealIP)
      /\ req[h].ip = Peer

\* C18 (as stated): the same, a header counting as present whenever the
\* request carries it, empty or not.
C18_PrecedencePresent ==
    \A h \in Slots : Resolved(h) => FollowsPrecedence(h, FALSE)

----------------------------------------------------------------------------
(* C19 *)

\* C19: whatever the request metadata, the resolved identity is a non-empty
\* string, also when the first comma-separated element of x-forwarded-for is
\* empty or blank.
C19_IdentityNeverEmpty ==
    \A h \in Slots : Resolved(h) => Truthy(req[h].ip)

----------------------------------------------------------------------------
(* C20 *)

\* in persistence mode, slot h answers 403 in this step
\* (res.status(403).json(blockInfo))
DeniedAt(h) ==
    /\ cfg.saveRecords
    /\ req[h].mw = "monitor"
    /\ req[h].pc = "reason"
    /\ req'[h].pc = "idle"

\* C20: in persistence mode every request the monitoring middleware handles
\* gets its log append after the response completes, the requests it denies
\* with 403 included:
\* when the middleware answers 403, that request's 'finish' hook, which does
\* the append, is registered.
C20_DeniedRequestsLogged ==
    [][\A h \in Slots : DeniedAt(h) => req[h].ip \in hooks']_vars

----------------------------------------------------------------------------
(* C21 *)

\* slot h runs updateLocalTracking in this step
TrackAt(h) == req[h].pc = "track" /\ req'[h].pc # "track"

WindowMs == cfg.timeWindow * MsPerSecond

\* requests of ip recorded since its last clear with a timestamp inside the
\* window that ends now
CountedInWindow(ip) ==
    Cardinality({i \in 1..Len(counted[ip].since) : counted[ip].since[i] > now - WindowMs})

\* C21: in the in-memory backend the requestCount returned for a request is 1
\* plus the number of requests of the identity recorded since its last clear
\* whose timestamp is later than now - timeWindow; the stored window changes
\* only inside updateLocalTracking and the clear after a verdict, never by a
\* step of its own.
C21_CountIsWindowSize ==
    [][/\ \A h \in Slots :
            TrackAt(h) =>
              counted'[req[h].ip].requestCount = 1 + CountedInWindow(req[h].ip)
       /\ \A ip \in Identities :
            (\A h \in Slots : ~(TrackAt(h) /\ req[h].ip = ip)) =>
              /\ MapHas(localRequestCounts', ip) = MapHas(localRequestCounts, ip)
              /\ MapHas(localRequestCounts, ip) =>
                   localRequestCounts'[ip] = localRequestCounts[ip]]_vars

\* a request recorded exactly timeWindow ago has just been left out of the count
C21_Witness ==
    \E ip \in Identities :
      /\ ~cfg.saveRecords
      /\ Len(counted[ip].since) = 3
      /\ counted[ip].since[1] = now - WindowMs
      /\ counted[ip].since[3] = now
      /\ counted[ip].requestCount = 2

----------------------------------------------------------------------------
(* C22 *)

\* routes of ip whose last recorded request since the last clear has a
\* timestamp inside the window that ends now
RoutesInWindow(ip) ==
    {r \in Routes : counted[ip].seen[r] # Never /\ counted[ip].seen[r] > now - WindowMs}

\* C22: the distinct-route count used for the verdict of a request counts the
\* request's own route and the routes of the identity whose last request is
\* inside the trailing window, and no route last requested longer ago.
C22_RoutesCountedInWindow ==
    [][\A h \in Slots :
         TrackAt(h) =>
           counted'[req[h].ip].scanCount =
             Cardinality(RoutesInWindow(req[h].ip) \cup {req[h].route})]_vars

----------------------------------------------------------------------------
(* C23 *)

\* the verdict of the request that slot h finishes classifying in this step,
\* handleAttackDetection running to its end in this step
VerdictAt(h) ==
    IF req[h].pc = "block" /\ req'[h].pc = "idle" THEN req[h].attackType
    ELSE IF TrackAt(h) /\ req'[h].pc = "idle"
         THEN Classify(counted'[req[h].ip].requestCount,
                       counted'[req[h].ip].scanCount, cfg)
    ELSE NoAttack

\* C23: when a request produces a verdict, in either backend, a block entry
\* with the verdict as its reason is installed and the identity's request
\* counter or window and its route set are cleared.
C23_VerdictBlocksAndClears ==
    [][\A h \in Slots :
         VerdictAt(h) # NoAttack =>
           LET ip == req[h].ip
           IN  IF cfg.saveRecords
               THEN /\ MapHas(redisBlocked', ip)
                    /\ redisBlocked'[ip].reason = VerdictAt(h)
                    /\ ~MapHas(redisCount', ip)
                    /\ ~MapHas(redisScan', ip)
               ELSE /\ MapHas(localBlockedIPs', ip)
                    /\ localBlockedIPs'[ip].reason = VerdictAt(h)
                    /\ ~MapHas(localRequestCounts', ip)
                    /\ ~MapHas(localRouteScans', ip)]_vars

----------------------------------------------------------------------------
(* C24 *)

\* C24: at the moment the subscribers of 'attack-detected' are invoked for an
\* identity, its block entry is already installed (isIPBlocked would return
\* true) and its tracking state is already cleared.
C24_BlockedAndClearedAtEmit ==
    \A ip \in Identities :
      emitted[ip].at # Never => emitted[ip].blocked /\ emitted[ip].cleared

----------------------------------------------------------------------------
(* C25 *)

\* slot g has produced a verdict whose block is not installed yet
AwaitsBlock(g) == req[g].pc = "block"

\* slot h counts its request (INCR) or classifies it in this step
CountsOrClassifiesAt(h) ==
    \/ req[h].pc = "incr" /\ req'[h].pc = "sadd"
    \/ req[h].pc = "scard" /\ req'[h].pc # "scard"
    \/ TrackAt(h)

\* C25: between the verdict of a request and the installation of its block no
\* other request of the same identity is counted or classified, in the shared
\* backend as in the in-memory one.
C25_CrossingToBlockAtomic ==
    [][\A g \in Slots, h \in Slots :
         (g # h /\ AwaitsBlock(g) /\ req[h].ip = req[g].ip) =>
           ~CountsOrClassifiesAt(h)]_vars

----------------------------------------------------------------------------
(* C26 *)

\* the timestamps of seq inside the window that ends at the last of them
WindowOf(seq) == SelectSeq(seq, LAMBDA time : time > seq[Len(seq)] - WindowMs)

\* C26: in the in-memory backend, with requests of one identity in flight
\* together, nothing recorded is lost and the counts follow the order of the
\* record steps: between two clears the stored window holds exactly the
\* recorded timestamps that were inside the window at the last record step,
\* the stored route set holds every recorded route, and the count returned
\* last is the position of that request in the window (1, 2, 3, ...).
C26_RecordingSerialized ==
    ~cfg.saveRecords =>
      \A ip \in Identities :
        IF counted[ip].since = <<>>
        THEN ~MapHas(localRequestCounts, ip) /\ ~MapHas(localRouteScans, ip)
        ELSE /\ MapHas(localRequestCounts, ip) /\ MapHas(localRouteScans, ip)
             /\ localRequestCounts[ip] = WindowOf(counted[ip].since)
             /\ localRouteScans[ip] = {r \in Routes : counted[ip].seen[r] # Never}
             /\ counted[ip].requestCount = Len(WindowOf(counted[ip].since))
             /\ counted[ip].scanCount = Cardinality(localRouteScans[ip])

\* a second request of the identity has been recorded while another one,
\* which entered before it, has not been recorded yet
C26_Witness ==
    \E ip \in Identities, h \in Slots :
      /\ ~cfg.saveRecords
      /\ Len(counted[ip].since) = 2
      /\ counted[ip].requestCount = 2
      /\ Cardinality(localRouteScans[ip]) = 2
      /\ req[h].pc = "track"
      /\ req[h].ip = ip

----------------------------------------------------------------------------
(* C27 *)

\* the tracking state of ip was cleared by a verdict and nothing has been
\* recorded for it since
JustCleared(ip) ==
    /\ ~cfg.saveRecords
    /\ emitted[ip].at # Never
    /\ counted[ip].since = <<>>

\* C27: in the in-memory backend the first request recorded for an identity
\* after its tracking state was cleared gets the counts (1, 1), whatever the
\* window and the route set held before the clear.
C27_ClearThenRecord ==
    [][\A h \in Slots :
         (TrackAt(h) /\ JustCleared(req[h].ip)) =>
           /\ counted'[req[h].ip].requestCount = 1
           /\ counted'[req[h].ip].scanCount = 1]_vars

\* a request has been recorded after a clear that removed two routes
C27_Witness ==
    \E ip \in Identities :
      /\ ~cfg.saveRecords
      /\ emitted[ip].at # Never
      /\ counted[ip].since = <<now>>
      /\ counted[ip].requestCount = 1
      /\ counted[ip].scanCount = 1
      /\ MapHas(localBlockedIPs, ip)
      /\ localBlockedIPs[ip].reason = PathScanning

----------------------------------------------------------------------------
(* C28 *)

(* Requests handled one after another, every one of them aborted before its  *)
(* response completes: the 'finish' hook never runs                          *)

NextAbort ==
    \/ SeqTick
    \/ SeqMonitorMiddleware
    \/ SeqBlockIPsMiddleware
    \/ \E h \in Slots : SeqLocalStep(h)
    \/ \E h \in Slots : SharedStep(h)
    \/ Abort

SpecAbort == InitSeq /\ [][NextAbort]_vars

\* slot h registers the hook and calls next() in this step
NextCalledAt(h) ==
    /\ req[h].mw = "monitor"
    /\ req[h].pc \in {"track", "scard", "block"}
    /\ req'[h].pc = "idle"

\* a pending 'finish' hook goes away in this step
HookDropped == hooks' # hooks /\ hooks' \subseteq hooks

\* C28: when a request is handed to the next handler its count is recorded
\* and the block of its verdict, if any, is installed; when the request is
\* aborted, so that its 'finish' hook never runs, the tracking state and the
\* block entries stay as they are.
C28_DecisionBeforeNextNoRollback ==
    [][/\ \A h \in Slots :
            NextCalledAt(h) =>
              LET ip == req[h].ip
              IN  /\ ip \in hooks'
                  /\ VerdictAt(h) # NoAttack =>
                       IF cfg.saveRecords
                       THEN /\ MapHas(redisBlocked', ip)
                            /\ redisBlocked'[ip].exp = RedisExpireAt(now, BlockSeconds)
                       ELSE /\ MapHas(localBlockedIPs', ip)
                            /\ localBlockedIPs'[ip].expiresAt = now + BlockMs
                  /\ (~cfg.saveRecords /\ VerdictAt(h) = NoAttack) =>
                       /\ MapHas(localRequestCounts', ip)
                       /\ localRequestCounts'[ip][Len(localRequestCounts'[ip])] = now
                       /\ req[h].route \in localRouteScans'[ip]
       /\ HookDropped =>
            /\ TrackingState' = TrackingState
            /\ localBlockedIPs' = localBlockedIPs
            /\ redisBlocked' = redisBlocked]_vars

\* the request whose verdict installed the block was aborted; the block is
\* still installed
C28_Witness ==
    \E ip \in Identities :
      /\ hooks = {}
      /\ \A h \in Slots : Free(h)
      /\ emitted[ip].at = now
      /\ passedAt[ip] # <<>>
      /\ BlockActive(ip)
      /\ StoredReason(ip) \in {DDoS, PathScanning}

----------------------------------------------------------------------------
(* C29 *)

(* Several identities, requests handled one after another, each handler as   *)
(* one step.  An identity is whatever getClientIP returns; it is written     *)
(* here as the sequence of its parts between colons, so that the template    *)
(* `blocked:${ip}:reason` is the concatenation below.                        *)

Clients == { <<"10.0.0.2">>, <<"10.0.0.2", "reason">>, <<"127.0.0.1">> }

RequestKey(ip) == <<"req_count">> \o ip           \* `req_count:${ip}`
ScanKey(ip) == <<"scan_count">> \o ip             \* `scan_count:${ip}`
BlockedKey(ip) == <<"blocked">> \o ip             \* `blocked:${ip}`
ReasonKey(ip) == <<"blocked">> \o ip \o <<"reason">>   \* `blocked:${ip}:reason`

Blocked1 == "1"

\* monitorMiddleware, shared branch, on the Redis keys
HandleSharedKeys(count, scan, blocked, ip, route, t, c) ==
    IF MapHas(blocked, BlockedKey(ip))
    THEN [ count |-> count, scan |-> scan, blocked |-> blocked, outcome |-> "denied" ]
    ELSE LET old == IF MapHas(count, RequestKey(ip)) THEN count[RequestKey(ip)].val ELSE 0
             count1 == MapSet(count, RequestKey(ip),
                          [val |-> old + 1, exp |-> RedisExpireAt(t, c.timeWindow)])
             members == (IF MapHas(scan, ScanKey(ip)) THEN scan[ScanKey(ip)].members
                         ELSE {}) \cup {route}
             scan1 == MapSet(scan, ScanKey(ip),
                          [members |-> members, exp |-> RedisExpireAt(t, c.timeWindow)])
             a == Classify(count1[RequestKey(ip)].val, Cardinality(members), c)
         IN  [ count |-> count1, scan |-> scan1,
               blocked |-> IF a # NoAttack
                           THEN MapSet(MapSet(blocked, BlockedKey(ip),
                                         [val |-> Blocked1,
                                          exp |-> RedisExpireAt(t, BlockSeconds)]),
                                       ReasonKey(ip),
                                       [val |-> a, exp |-> RedisExpireAt(t, BlockSeconds)])
                           ELSE blocked,
               outcome |-> "passed" ]

IsolationOptions == {o \in Options : o.timeWindow = 60 /\ o.maxRequests = 1}

\* parity tells a request from the one before it
IdleClient == [pc |-> "idle", ip |-> <<>>, parity |-> 0]

InitIsolation ==
    /\ now = 0
    /\ ticks = 0
    /\ \E o \in IsolationOptions : cfg = Construct(o)
    /\ localRequestCounts = EmptyMap
    /\ localRouteScans = EmptyMap
    /\ localBlockedIPs = EmptyMap
    /\ blockerBlockedIPs = EmptyMap
    /\ redisCount = EmptyMap
    /\ redisScan = EmptyMap
    /\ redisBlocked = EmptyMap
    /\ req = [h \in Slots |-> IdleClient]
    /\ hooks = {}
    /\ passedAt = [i \in Identities |-> <<>>]
    /\ denied = [i \in Identities |-> NoDeny]
    /\ emitted = [i \in Identities |-> NoEvent]
    /\ counted = [i \in Identities |-> NothingCounted]

ClientRequest ==
    \E ip \in Clients, route \in Routes :
      /\ IF cfg.saveRecords
         THEN LET g == HandleSharedKeys(redisCount, redisScan, redisBlocked, ip, route,
                                        now, cfg)
              IN  /\ redisCount' = g.count
                  /\ redisScan' = g.scan
                  /\ redisBlocked' = g.blocked
                  /\ req' = [h \in Slots |->
                               IF h = 1 THEN [pc |-> g.outcome, ip |-> ip,
                                             parity |-> 1 - req[1].parity]
                               ELSE IdleClient]
                  /\ UNCHANGED <<localRequestCounts, localRouteScans, localBlockedIPs>>
         ELSE LET l == HandleLocal(localRequestCounts, localRouteScans, localBlockedIPs,
                                   ip, route, now, cfg)
              IN  /\ localRequestCounts' = l.counts
                  /\ localRouteScans' = l.scans
                  /\ localBlockedIPs' = l.blocked
                  /\ req' = [h \in Slots |->
                               IF h = 1 THEN [pc |-> l.outcome, ip |-> ip,
                                             parity |-> 1 - req[1].parity]
                               ELSE IdleClient]
                  /\ UNCHANGED <<redisCount, redisScan, redisBlocked>>
      /\ UNCHANGED <<now, ticks, cfg, blockerBlockedIPs, hooks, passedAt, denied,
                     emitted, counted>>

NextIsolation ==
    \/ SharedTick
    \/ ClientRequest

SpecIsolation == InitIsolation /\ [][NextIsolation]_vars

\* the entry of key k in map m, if any
Lookup(m, k) == IF MapHas(m, k) THEN <<m[k]>> ELSE <<>>

\* what is stored about identity b: its request window or counter and its
\* route set
TrackingOf(b) ==
    << Lookup(localRequestCounts, b), Lookup(localRouteScans, b),
       Lookup(redisCount, RequestKey(b)), Lookup(redisScan, ScanKey(b)) >>

\* the block entry of identity b as isIPBlocked and getBlockInfo see it
BlockOf(b) ==
    IF cfg.saveRecords
    THEN IF MapHas(redisBlocked, BlockedKey(b))
         THEN << [ exp |-> redisBlocked[BlockedKey(b)].exp,
                   reason |-> IF MapHas(redisBlocked, ReasonKey(b))
                              THEN redisBlocked[ReasonKey(b)].val ELSE DefaultReason ] >>
         ELSE <<>>
    ELSE Lookup(localBlockedIPs, b)

\* a request of identity a is handled in this step
HandledAt(a) == req'[1].parity # req[1].parity /\ req'[1].ip = a

\* C29: handling a request of identity A leaves the request window or
\* counter, the route set and the block entry of every other identity B as
\* they were: A never causes B to be blocked or unblocked.
C29_IdentitiesIsolated ==
    [][\A a \in Clients, b \in Clients :
         (HandledAt(a) /\ b # a) =>
           /\ TrackingOf(b)' = TrackingOf(b)
           /\ BlockOf(b)' = BlockOf(b)]_vars

----------------------------------------------------------------------------
(* C30 *)

\* slot h runs getBlockInfo on the in-memory blocklist in this step, to
\* build the 403 response of monitorMiddleware
BuildsDenialAt(h) ==
    /\ ~cfg.saveRecords
    /\ req[h].mw = "monitor"
    /\ req[h].pc = "deny"
    /\ req'[h].pc # "deny"

\* C30: in the in-memory backend, whenever a denial response is built the
\* identity's block entry exists and is unexpired, building the response
\* does not fail and the remaining time it reports is at least 1 second,
\* whatever happens between the isIPBlocked check and the getBlockInfo call.
C30_DenialEntryLive ==
    [][\A h \in Slots :
         BuildsDenialAt(h) =>
           LET ip == req[h].ip
           IN  /\ MapHas(localBlockedIPs, ip)
               /\ now < localBlockedIPs[ip].expiresAt
               /\ req'[h].pc # "threw"
               /\ denied'[ip].blockedFor >= 1]_vars

----------------------------------------------------------------------------
(* C31 *)

\* C31: in the in-memory backend an identity with an unexpired block entry
\* has neither a request window nor a route set, also when requests of the
\* identity had passed the block check before the block was installed.
C31_BlockedHasNoTracking ==
    ~cfg.saveRecords =>
      \A ip \in Identities :
        BlockActive(ip) =>
          ~MapHas(localRequestCounts, ip) /\ ~MapHas(localRouteScans, ip)

====
